---- MODULE Spec2Model ----
(***************************************************************************)
(* SerialTaskGraph of rime/core/taskgraph.py: the depth-first driver that  *)
(* runs Task objects to completion through Continue / Throw / Wait / Close *)
(* and memoises their outcome in self.cache.                               *)
(*                                                                         *)
(* The recursion of _Run is an explicit stack of frames.  What a task's    *)
(* Continue or Throw hands back is an input of the model: every signal of  *)
(* the Task contract is drawn from a small set.  The tasks without a cache  *)
(* key are ExternalProcessTasks and answer by their own code; UnitSpec      *)
(* drives the methods of ExternalProcessTask on their own, in any order.    *)
(***************************************************************************)
EXTENDS Integers, Sequences, FiniteSets, TLC

\* ------------------------------------------------------------------ bounds
NumTasks == 5        \* Task objects that exist
MaxWork == 3         \* Run calls, subtasks and blocks asked for, all together

Tasks == 1..NumTasks

\* ------------------------------------------------------------ Python values
\* None, an opaque value, or the list the scheduler builds for a TaskBranch.
None == [k |-> "none", v |-> 0, l |-> <<>>]
Atom(n) == [k |-> "atom", v |-> n, l |-> <<>>]
List(s) == [k |-> "list", v |-> 0, l |-> s]
\* The values the body of task t bails out with: None (the default of
\* Bailout) or a value of its own.
Values(t) == {None, Atom(t)}

\* An exception object.  id is its identity: two raises never share one.
NoExc == [type |-> "none", val |-> None, id |-> <<"none", 0, 0>>]
Exc(type, val, id) == [type |-> type, val |-> val, id |-> id]

\* The (success, value) pairs of _Run: value[0] and value[1].
Ok(v) == [ok |-> TRUE, val |-> v, exc |-> NoExc]
Fail(e) == [ok |-> FALSE, val |-> None, exc |-> e]

\* ------------------------------------------------------------------- Task
\* CacheKey() of each Task object; NoKey is CacheKey() returning None.
\* Object 1 carries key 1, objects 2 and 3 carry the same key 2, objects 4 and
\* 5 (ExternalProcessTasks) carry none; further objects repeat the pattern.
NoKey == 0
CacheKey(t) ==
  CASE t % 5 \in {0, 4} -> NoKey
    [] t % 5 = 1 -> 1
    [] OTHER -> 2

\* Task.__hash__: id(self) when there is no key, hash of the key otherwise.
Hash(t) == IF CacheKey(t) = NoKey THEN <<"id", t>> ELSE <<"key", CacheKey(t)>>

\* Task.__eq__ as two bugs would have it: object identity only; the keys
\* only, two objects without a key being equal.
EqIdentity(a, b) == a = b
EqKeyOnly(a, b) == CacheKey(a) = CacheKey(b)

\* Task.__eq__
Eq(a, b) ==
  IF CacheKey(a) = NoKey /\ CacheKey(b) = NoKey
    THEN a = b
    ELSE CacheKey(a) = CacheKey(b)

\* The dict entry a Task object falls in: self.cache holds one entry for all
\* the objects with the same hash that are equal to each other, named here by
\* the first of them.
Same(a, b) == Hash(a) = Hash(b) /\ Eq(a, b)
SlotOf == [t \in Tasks |-> CHOOSE u \in Tasks : Same(u, t) /\ \A w \in Tasks : Same(w, t) => u <= w]
Slot(t) == SlotOf[t]
Slots == {Slot(t) : t \in Tasks}

\* ---------------------------------------------------- ExternalProcessTask
\* The Task objects without a key are the ExternalProcessTasks.
Units == {t \in Tasks : CacheKey(t) = NoKey}

\* ExternalProcessTask.__init__: the exclusive flag and whether a timeout was
\* given; self.proc and self.timer are None.  proc is "running" while the
\* process of self.proc has not exited, "zombie" once it has exited and
\* neither poll() nor wait() has collected it, "exited" once one of them has
\* (the process id is then free for reuse); timer is "live"
\* while the Timer of self.timer can still fire, "fired" once it has run;
\* spawned counts the calls of _StartProcess that created a process.
NewUnit(x, tmo) ==
  [exclusive |-> x, timeout |-> tmo, proc |-> "none", timer |-> "none", spawned |-> 0]

\* The units as constructed: either none is exclusive and every other one has
\* a timeout, or all have a timeout and every other one is exclusive.
Constructed ==
  {[u \in Units |-> NewUnit(FALSE, u % 5 = 4)], [u \in Units |-> NewUnit(u % 5 = 0, TRUE)]}

\* The signals and errors of a unit's methods.
UnitReturn(u) == [sig |-> "Return", val |-> Atom(u), tasks |-> <<>>, exc |-> NoExc]
UnitBlock == [sig |-> "Block", val |-> None, tasks |-> <<>>, exc |-> NoExc]
UnitRaise(type, u) ==
  [sig |-> "Raise", val |-> None, tasks |-> <<>>, exc |-> Exc(type, None, <<"unit", u, 0>>)]

\* _StartProcess once Popen has created the process.
StartProcess(s) ==
  [s EXCEPT !.proc = "running",
            !.timer = IF s.timeout THEN "live" ELSE "none",
            !.spawned = @ + 1]

\* self.proc.wait(): returns once the process has exited; a live timer may
\* have fired in the meantime.
ProcWait(s) ==
  {[s EXCEPT !.proc = "exited", !.timer = tm] :
     tm \in {s.timer} \cup (IF s.timer = "live" THEN {"fired"} ELSE {})}

\* _EndProcess as a bug would have it: the timer is left alone.
EndProcessKeepsTimer(s) == [s EXCEPT !.proc = "none"]

\* _EndProcess
EndProcess(s) == [s EXCEPT !.timer = "none", !.proc = "none"]

\* ExternalProcessTask.Poll as a bug would have it: the process is never
\* found to have exited.
PollNeverReady(s) == {[ready |-> FALSE, s |-> s]}

\* ExternalProcessTask.Poll: the states self.proc.poll() can leave, with its
\* answer; a running process may be found to have exited.
Poll(s) ==
  IF s.proc \in {"exited", "zombie"}
    THEN {[ready |-> TRUE, s |-> [s EXCEPT !.proc = "exited"]]}
    ELSE {[ready |-> FALSE, s |-> s], [ready |-> TRUE, s |-> [s EXCEPT !.proc = "exited"]]}

\* _ContinueExclusive as a bug would have it: the process is started and the
\* unit blocks.
ContinueExclusiveBlocks(u, s) ==
  IF s.proc # "none"
    THEN {[r |-> UnitRaise("AssertionError", u), s |-> s]}
    ELSE {[r |-> UnitRaise("OSError", u), s |-> s],
          [r |-> UnitBlock, s |-> StartProcess(s)]}

\* _ContinueExclusive: the signal returned or the error raised, and the state
\* the unit is left in.  Popen may fail.
ContinueExclusive(u, s) ==
  IF s.proc # "none"
    THEN {[r |-> UnitRaise("AssertionError", u), s |-> s]}
    ELSE {[r |-> UnitRaise("OSError", u), s |-> s]}
         \cup {[r |-> UnitReturn(u), s |-> EndProcess(w)] : w \in ProcWait(StartProcess(s))}

\* _ContinueNonExclusive as a bug would have it: every call starts a process.
ContinueNonExclusiveRestarts(u, s) ==
  {[r |-> UnitRaise("OSError", u), s |-> s], [r |-> UnitBlock, s |-> StartProcess(s)]}

\* _ContinueNonExclusive
ContinueNonExclusive(u, s) ==
  IF s.proc = "none"
    THEN {[r |-> UnitRaise("OSError", u), s |-> s], [r |-> UnitBlock, s |-> StartProcess(s)]}
    ELSE {IF p.ready THEN [r |-> UnitReturn(u), s |-> EndProcess(p.s)]
                     ELSE [r |-> UnitBlock, s |-> p.s] : p \in Poll(s)}

\* ExternalProcessTask.Continue
UnitContinue(u, s) ==
  IF s.exclusive THEN ContinueExclusive(u, s) ELSE ContinueNonExclusive(u, s)

\* ExternalProcessTask.Wait
UnitWait(s) == ProcWait(s)

\* ExternalProcessTask.Close as a bug would have it: the process is killed
\* and the timer is left alone.
UnitCloseKeepsTimer(s) == [s EXCEPT !.proc = "none"]

\* ExternalProcessTask.Close: the timer is cancelled, the process killed and
\* waited for.
UnitClose(s) == [s EXCEPT !.timer = "none", !.proc = "none"]

\* run_subprocess of rime/task.py: the process is started, the timer armed
\* when a timeout is given, the process waited for and the timer cancelled;
\* the states of process and timer when it returns.
run_subprocess(tmo) ==
  {[w EXCEPT !.timer = IF tmo THEN "none" ELSE w.timer] :
     w \in ProcWait(StartProcess(NewUnit(TRUE, tmo)))}

\* The states a KeyboardInterrupt raised inside the first Continue leaves:
\* it arrives before Popen, or after the process was started.
UnitInterrupted(s) == {s, StartProcess(s)}

\* ------------------------------------------------------------ self.cache
Absent == [st |-> "absent", ok |-> FALSE, val |-> None, exc |-> NoExc]
InProgress == [st |-> "inprogress", ok |-> FALSE, val |-> None, exc |-> NoExc]
Resolved(o) == [st |-> "resolved", ok |-> o.ok, val |-> o.val, exc |-> o.exc]

VARIABLES
  cache,     \* self.cache: Slot -> Absent | InProgress (None) | Resolved
  running,   \* self.running
  stack,     \* the active _Run frames, root first
  ret,       \* how the last Run ended: its return value or the exception raised
  root,      \* the task given to the last Run
  runs,      \* number of Run calls so far
  work,      \* Run calls made, subtasks and blocks asked for so far
  starts,    \* per Task object: number of times its body was started
  closes,    \* per Task object: number of Close calls
  raised,    \* the Task objects whose Close raised an error
  unit,      \* per ExternalProcessTask: its flags, self.proc and self.timer
  last,      \* the last method called on a unit by a caller other than _Run
  made,      \* the calls of task_method-wrapped functions made so far
  exec       \* the last call of CodeBase._ExecInternal

vars == <<cache, running, stack, ret, root, runs, work, starts, closes, raised, unit, last,
          made, exec>>

NoRet == [st |-> "none", val |-> None, exc |-> NoExc]
Returned(v) == [st |-> "returned", val |-> v, exc |-> NoExc]
Raised(e) == [st |-> "raised", val |-> None, exc |-> e]

NoLast == [op |-> "none", task |-> 0, sig |-> "none", from |-> NewUnit(FALSE, FALSE)]

\* No task_method-wrapped function called yet: no GeneratorTask, no generator
\* created, no error raised.
NoneMade ==
  [tasks |-> <<>>, gens |-> 0, err |-> "none",
   call |-> [func |-> "none", args |-> <<>>, kwargs |-> <<>>]]

\* _ExecInternal not called yet.
NoExec == [timeout |-> FALSE, code |-> 0, status |-> "none"]

NoCall == [kind |-> "none", arg |-> None, exc |-> NoExc]

Init ==
  /\ cache = [s \in Slots |-> Absent]
  /\ running = FALSE
  /\ stack = <<>>
  /\ ret = NoRet
  /\ root = 0
  /\ runs = 0
  /\ work = 0
  /\ starts = [t \in Tasks |-> 0]
  /\ closes = [t \in Tasks |-> 0]
  /\ raised = {}
  /\ unit \in Constructed
  /\ last = NoLast
  /\ made = NoneMade
  /\ exec = NoExec

Top == stack[Len(stack)]
Pop == SubSeq(stack, 1, Len(stack) - 1)

\* The unit state of a Task object (a placeholder for the objects that are
\* not units), and the units after one of them changed state.
UnitOf(t) == IF t \in Units THEN unit[t] ELSE NewUnit(FALSE, FALSE)
SetUnit(t, s) == IF t \in Units THEN [unit EXCEPT ![t] = s] ELSE unit

\* A frame of _Run(task) that has entered the `task not in self.cache` arm.
\* sig/tasks/idx/results: the signal last returned and the position of the
\* list comprehension over result.tasks; entered: the subtasks of that list
\* whose body this frame's _Run calls have run (the others were answered from
\* the cache).  call: the last Continue/Throw call made on the task; on: the
\* signal, list, position, entered subtasks and value that call answered.
NoOn == [sig |-> "none", tasks |-> <<>>, idx |-> 0, entered |-> {}, value |-> Ok(None)]
Frame(t) ==
  [task |-> t, pc |-> "resume", value |-> Ok(None), sig |-> "none",
   tasks |-> <<>>, idx |-> 0, results |-> <<>>, entered |-> {},
   call |-> NoCall, on |-> NoOn]

\* `task in self.cache` as three bugs would have it: an entry counts only
\* once it is resolved; a failed entry does not count (the task is retried);
\* a resolved entry does not count (the task is recomputed).
InCacheResolvedOnly(c, t) == c[Slot(t)].st = "resolved"
InCacheInProgressOnly(c, t) == c[Slot(t)].st = "inprogress"
InCacheRetryFailed(c, t) ==
  c[Slot(t)].st = "inprogress" \/ (c[Slot(t)].st = "resolved" /\ c[Slot(t)].ok)

\* `task in self.cache` (line 281)
InCache(c, t) == c[Slot(t)].st # "absent"

\* Lines 323-329 as a bug would have them: a stored error is raised wrapped
\* in a new exception object.
FetchWrapped(c, t, cyc) ==
  LET e == c[Slot(t)] IN
  IF e.st = "inprogress"
    THEN Fail(Exc("RuntimeError", None, cyc))
    ELSE IF e.ok THEN Ok(e.val)
         ELSE Fail(Exc(e.exc.type, e.exc.val, <<"wrapped", t, 0>>))

\* Lines 323-329: what _Run(task) returns or raises once the cache holds the
\* task.  cyc is the identity of the RuntimeError made when the entry is None.
Fetch(c, t, cyc) ==
  LET e == c[Slot(t)] IN
  IF e.st = "inprogress"
    THEN Fail(Exc("RuntimeError", None, cyc))
    ELSE IF e.ok THEN Ok(e.val) ELSE Fail(e.exc)

\* Lines 296-306 as two bugs would have them: the results are collected in
\* reverse; the parent is resumed with the first result that arrives.
CollectReversed(f, out) ==
  IF ~out.ok
    THEN [f EXCEPT !.value = out, !.pc = "resume"]
    ELSE IF f.sig = "Task"
      THEN [f EXCEPT !.value = Ok(out.val), !.pc = "resume"]
      ELSE LET rs == <<out.val>> \o f.results IN
           IF f.idx = Len(f.tasks)
             THEN [f EXCEPT !.results = rs, !.value = Ok(List(rs)), !.pc = "resume"]
             ELSE [f EXCEPT !.results = rs, !.idx = f.idx + 1]
CollectFirst(f, out) ==
  IF ~out.ok
    THEN [f EXCEPT !.value = out, !.pc = "resume"]
    ELSE IF f.sig = "Task"
      THEN [f EXCEPT !.value = Ok(out.val), !.pc = "resume"]
      ELSE LET rs == Append(f.results, out.val) IN
           [f EXCEPT !.results = rs, !.value = Ok(List(rs)), !.pc = "resume"]

\* Line 304 as a bug would have it: the result of a bare Task is wrapped in a
\* list, as line 298 does for a TaskBranch.
CollectTaskAsList(f, out) ==
  IF ~out.ok
    THEN [f EXCEPT !.value = out, !.pc = "resume"]
    ELSE LET rs == Append(f.results, out.val) IN
         IF f.idx = Len(f.tasks)
           THEN [f EXCEPT !.results = rs, !.value = Ok(List(rs)), !.pc = "resume"]
           ELSE [f EXCEPT !.results = rs, !.idx = f.idx + 1]

\* Lines 296-306: the frame that yielded a TaskBranch or a Task receives the
\* outcome of one _Run(subtask).
Collect(f, out) ==
  IF ~out.ok
    THEN [f EXCEPT !.value = out, !.pc = "resume"]
    ELSE IF f.sig = "Task"
      THEN [f EXCEPT !.value = Ok(out.val), !.pc = "resume"]
      ELSE LET rs == Append(f.results, out.val) IN
           IF f.idx = Len(f.tasks)
             THEN [f EXCEPT !.results = rs, !.value = Ok(List(rs)), !.pc = "resume"]
             ELSE [f EXCEPT !.results = rs, !.idx = f.idx + 1]

\* Lines 286-291 as two bugs would have them: a Bailout is thrown in like any
\* other error; an error is passed to Continue as if it were a value.
CallThrowsBailout(value) ==
  IF value.ok
    THEN [kind |-> "Continue", arg |-> value.val, exc |-> NoExc]
    ELSE [kind |-> "Throw", arg |-> None, exc |-> value.exc]
CallContinuesOnError(value) ==
  IF value.ok
    THEN [kind |-> "Continue", arg |-> value.val, exc |-> NoExc]
    ELSE IF value.exc.type = "Bailout"
      THEN [kind |-> "Continue", arg |-> value.exc.val, exc |-> NoExc]
      ELSE [kind |-> "Continue", arg |-> None, exc |-> NoExc]

\* Lines 286-291: the entry point and the argument the loop resumes a task with.
Call(value) ==
  IF value.ok
    THEN [kind |-> "Continue", arg |-> value.val, exc |-> NoExc]
    ELSE IF value.exc.type = "Bailout"
      THEN [kind |-> "Continue", arg |-> value.exc.val, exc |-> NoExc]
      ELSE [kind |-> "Throw", arg |-> None, exc |-> value.exc]

\* Lines 275-278 and 325-329 as a bug would have them: a Bailout that leaves
\* the root's frame makes Run return the carried value.
LeaveReturnsBailoutValue(stk, out) ==
  IF stk = <<>>
    THEN /\ stack' = <<>>
         /\ running' = FALSE
         /\ ret' = IF out.ok THEN Returned(out.val)
                   ELSE IF out.exc.type = "Bailout" THEN Returned(out.exc.val)
                   ELSE Raised(out.exc)
    ELSE /\ stack' = [stk EXCEPT ![Len(stk)] = Collect(@, out)]
         /\ UNCHANGED <<running, ret>>

\* The outcome of _Run leaves the frame: to the caller's frame, or out of Run
\* (lines 275-278) when the frame was the root's.
Leave(stk, out) ==
  IF stk = <<>>
    THEN /\ stack' = <<>>
         /\ running' = FALSE
         /\ ret' = IF out.ok THEN Returned(out.val) ELSE Raised(out.exc)
    ELSE /\ stack' = [stk EXCEPT ![Len(stk)] = Collect(@, out)]
         /\ UNCHANGED <<running, ret>>

\* The callers' frames once the caller's _Run(t) has entered the body of t.
Entering(stk, t) ==
  IF stk = <<>> THEN stk ELSE [stk EXCEPT ![Len(stk)].entered = @ \cup {t}]

\* Lines 280-283 and 323-329 of _Run(t) called with stk as the callers' frames.
Enter(stk, t, cyc) ==
  IF InCache(cache, t)
    THEN /\ Leave(stk, Fetch(cache, t, cyc))
         /\ UNCHANGED cache
    ELSE /\ cache' = [cache EXCEPT ![Slot(t)] = InProgress]
         /\ stack' = Append(Entering(stk, t), Frame(t))
         /\ running' = TRUE
         /\ ret' = IF stk = <<>> THEN NoRet ELSE ret

\* SerialTaskGraph.Run(task), up to the first Continue.
Run(t) ==
  /\ ~running
  /\ work < MaxWork
  /\ work' = work + 1
  /\ runs' = runs + 1
  /\ root' = t
  /\ Enter(<<>>, t, <<"cyclic", 0, runs + 1>>)
  /\ UNCHANGED <<starts, closes, raised, unit, last, made, exec>>

\* The list comprehension of line 298 (or line 304) calls _Run on the next
\* subtask.
Submit ==
  /\ stack # <<>>
  /\ Top.pc = "branch"
  /\ Enter(stack, Top.tasks[Top.idx], <<"cyclic", Top.task, work>>)
  /\ UNCHANGED <<root, runs, work, starts, closes, raised, unit, last, made, exec>>

\* What Continue/Throw of a task can do, given the call and the number n of
\* subtasks or blocks the bodies may still ask for: return a signal or raise.
BranchLists(n) == UNION {[1..m -> Tasks] : m \in 0..n}
Cost(r) ==
  CASE r.sig = "Branch" -> IF r.tasks = <<>> THEN 1 ELSE Len(r.tasks)
    [] r.sig \in {"Task", "Block"} -> 1
    [] OTHER -> 0
\* A body ends with TaskReturn(v) or a bare value v of its own, or, raising
\* StopIteration, with None.
Signals(t, call, n) ==
  {[sig |-> "Return", val |-> Atom(t), tasks |-> <<>>, exc |-> NoExc]}
  \cup {[sig |-> "Value", val |-> Atom(t), tasks |-> <<>>, exc |-> NoExc]}
  \cup {[sig |-> "StopIteration", val |-> None, tasks |-> <<>>, exc |-> NoExc]}
  \cup {[sig |-> "Raise", val |-> None, tasks |-> <<>>,
         exc |-> Exc("Error", None, <<"body", t, 0>>)]}
  \cup {[sig |-> "Raise", val |-> None, tasks |-> <<>>,
         exc |-> Exc("Bailout", v, <<"body", t, 0>>)] : v \in Values(t)}
  \cup (IF call.kind = "Throw"
          THEN {[sig |-> "Raise", val |-> None, tasks |-> <<>>, exc |-> call.exc]}
          ELSE {})
  \cup (IF n > 0
          THEN {[sig |-> "Block", val |-> None, tasks |-> <<>>, exc |-> NoExc]}
               \cup {[sig |-> "Branch", val |-> None, tasks |-> ts, exc |-> NoExc] :
                       ts \in BranchLists(n)}
               \cup {[sig |-> "Task", val |-> None, tasks |-> <<u>>, exc |-> NoExc] :
                       u \in Tasks}
          ELSE {})

\* The frame records the call made on its task and what the call answered.
Called(f, call) ==
  [f EXCEPT !.call = call,
            !.on = [sig |-> f.sig, tasks |-> f.tasks, idx |-> f.idx,
                    entered |-> f.entered, value |-> f.value],
            !.entered = {}]

\* Lines 307-309 as a bug would have them: value is not reset after a
\* TaskBlock, so the task is resumed with what it was resumed with before.
DispatchBlockKeepsValue(f, r) ==
  CASE r.sig = "Branch" ->
         IF r.tasks = <<>>
           THEN [f EXCEPT !.sig = "Branch", !.tasks = <<>>, !.idx = 0,
                          !.results = <<>>, !.value = Ok(List(<<>>))]
           ELSE [f EXCEPT !.sig = "Branch", !.tasks = r.tasks, !.idx = 1,
                          !.results = <<>>, !.pc = "branch"]
    [] r.sig = "Task" ->
         [f EXCEPT !.sig = "Task", !.tasks = r.tasks, !.idx = 1,
                   !.results = <<>>, !.pc = "branch"]
    [] r.sig = "Block" ->
         [f EXCEPT !.sig = "Block", !.pc = "wait"]
    [] OTHER ->
         [f EXCEPT !.sig = r.sig, !.pc = "close"]

\* Lines 316-318 as a bug would have them: a value that is no signal is taken
\* for an intermediate yield and the body is resumed.
DispatchValueResumes(f, r) ==
  CASE r.sig = "Branch" ->
         IF r.tasks = <<>>
           THEN [f EXCEPT !.sig = "Branch", !.tasks = <<>>, !.idx = 0,
                          !.results = <<>>, !.value = Ok(List(<<>>))]
           ELSE [f EXCEPT !.sig = "Branch", !.tasks = r.tasks, !.idx = 1,
                          !.results = <<>>, !.pc = "branch"]
    [] r.sig = "Task" ->
         [f EXCEPT !.sig = "Task", !.tasks = r.tasks, !.idx = 1,
                   !.results = <<>>, !.pc = "branch"]
    [] r.sig = "Block" ->
         [f EXCEPT !.sig = "Block", !.value = Ok(None), !.pc = "wait"]
    [] r.sig = "Value" ->
         [f EXCEPT !.sig = "Value", !.value = Ok(None)]
    [] OTHER ->
         [f EXCEPT !.sig = r.sig, !.pc = "close"]

\* Lines 292-318: the frame after the call returned r.
Dispatch(f, r) ==
  CASE r.sig = "Branch" ->
         IF r.tasks = <<>>
           THEN [f EXCEPT !.sig = "Branch", !.tasks = <<>>, !.idx = 0,
                          !.results = <<>>, !.value = Ok(List(<<>>))]
           ELSE [f EXCEPT !.sig = "Branch", !.tasks = r.tasks, !.idx = 1,
                          !.results = <<>>, !.pc = "branch"]
    [] r.sig = "Task" ->
         [f EXCEPT !.sig = "Task", !.tasks = r.tasks, !.idx = 1,
                   !.results = <<>>, !.pc = "branch"]
    [] r.sig = "Block" ->
         [f EXCEPT !.sig = "Block", !.value = Ok(None), !.pc = "wait"]
    [] OTHER ->
         [f EXCEPT !.sig = r.sig, !.pc = "close"]

\* Lines 292-293 as a bug would have them: StopIteration is stored as the
\* error of the task, like any other exception.
StoredStopIterationRaises(r) ==
  CASE r.sig = "Raise" -> Resolved(Fail(r.exc))
    [] r.sig = "StopIteration" -> Resolved(Fail(Exc("StopIteration", None, <<"body", 0, 0>>)))
    [] OTHER -> Resolved(Ok(r.val))

\* Lines 292-295 and 310-318: the outcome stored in the cache when the loop
\* breaks.
Stored(r) ==
  CASE r.sig = "Raise" -> Resolved(Fail(r.exc))
    [] r.sig = "StopIteration" -> Resolved(Ok(None))
    [] OTHER -> Resolved(Ok(r.val))

Terminal(r) == r.sig \in {"Return", "Value", "StopIteration", "Raise"}

\* Lines 319-320 as a bug would have them: Close is skipped when the body
\* raised.
CloseCallsOnReturnOnly(f) == IF f.sig = "Raise" THEN 0 ELSE 1

\* Lines 319-320: the number of Close calls made on the task of a frame whose
\* loop has ended.
CloseCalls(f) == 1

\* What the call made on task t answers and the state it leaves a unit in: a
\* unit answers by its own code (Task.Throw raises NotImplementedError), the
\* body of any other task by one of Signals.
Answers(t, call, n) ==
  IF t \in Units
    THEN IF call.kind = "Throw"
           THEN {[r |-> UnitRaise("NotImplementedError", t), s |-> unit[t], cost |-> 0]}
           ELSE {[r |-> a.r, s |-> a.s, cost |-> 0] : a \in UnitContinue(t, unit[t])}
    ELSE {[r |-> r, s |-> UnitOf(t), cost |-> Cost(r)] : r \in Signals(t, call, n)}

\* One turn of the while loop of _Run: Continue or Throw is called on the
\* task of the top frame and its result is dispatched.
Resume ==
  /\ stack # <<>>
  /\ Top.pc = "resume"
  /\ LET f == Top
         t == f.task
         call == Call(f.value)
     IN \E a \in Answers(t, call, MaxWork - work) :
          /\ work' = work + a.cost
          /\ unit' = SetUnit(t, a.s)
          /\ starts' = IF f.sig = "none" THEN [starts EXCEPT ![t] = @ + 1] ELSE starts
          /\ stack' = [stack EXCEPT ![Len(stack)] = Dispatch(Called(f, call), a.r)]
          /\ cache' = IF Terminal(a.r) THEN [cache EXCEPT ![Slot(t)] = Stored(a.r)] ELSE cache
  /\ UNCHANGED <<running, ret, root, runs, closes, raised, last, made, exec>>

\* Line 309: task.Wait() after a TaskBlock; Task.Wait does nothing, the Wait
\* of a unit returns once its process has exited.
Wait ==
  /\ stack # <<>>
  /\ Top.pc = "wait"
  /\ \E s \in (IF Top.task \in Units THEN UnitWait(unit[Top.task]) ELSE {UnitOf(Top.task)}) :
       unit' = SetUnit(Top.task, s)
  /\ stack' = [stack EXCEPT ![Len(stack)].pc = "resume"]
  /\ UNCHANGED <<cache, running, ret, root, runs, work, starts, closes, raised, last, made, exec>>

\* The GeneratorTasks whose body answers the GeneratorExit of close() by
\* yielding again: object 3 and the objects that repeat it.
Refusing == {t \in Tasks : t % 5 = 3}

\* self.it.close() on such a body: RuntimeError('generator ignored
\* GeneratorExit') while the generator is suspended at the yield that ended
\* the loop, nothing once the generator has finished.
ItClose(sig) == IF sig \in {"Return", "Value"} THEN "RuntimeError" ELSE "none"

\* GeneratorTask.Close as a bug would have it: the RuntimeError is not caught.
GeneratorCloseNoCatch(e) == e # "none"

\* GeneratorTask.Close: whether it raises when self.it.close() raised e.
GeneratorClose(e) == e \notin {"none", "RuntimeError"}

\* Whether Close can raise an Exception: the Close of a unit swallows every
\* error of os.kill and raises none; that of a GeneratorTask with a refusing
\* body is GeneratorClose; the Close of any other task may raise.
CloseRaises(t, sig) ==
  IF t \in Units THEN {FALSE}
  ELSE IF t \in Refusing THEN {GeneratorClose(ItClose(sig))}
  ELSE BOOLEAN

\* The error a raising Close of task t raises.
CloseError(t) == Exc("Error", None, <<"close", t, 0>>)

\* Lines 319-322 as a bug would have them: the error of Close is swallowed.
CloseStoredKeepsOutcome(c, t, raises) == c

\* Lines 319-322: the cache once Close has returned or raised.
CloseStored(c, t, raises) ==
  IF raises THEN [c EXCEPT ![Slot(t)] = Resolved(Fail(CloseError(t)))] ELSE c

\* Lines 319-329: Close is called, its error (if it raises) replaces the cache
\* entry, and _Run hands the cached outcome to its caller.
Close ==
  /\ stack # <<>>
  /\ Top.pc = "close"
  /\ LET t == Top.task IN
     \E raises \in CloseRaises(t, Top.sig) :
       /\ closes' = [closes EXCEPT ![t] = @ + CloseCalls(Top)]
       /\ raised' = IF raises THEN raised \cup {t} ELSE raised
       /\ unit' = SetUnit(t, UnitClose(UnitOf(t)))
       /\ cache' = CloseStored(cache, t, raises)
       /\ Leave(Pop, Fetch(cache', t, <<"cyclic", t, work>>))
  /\ UNCHANGED <<root, runs, work, starts, last, made, exec>>

\* The call the loop is making on the task of the top frame (Continue, Throw,
\* Wait or Close) raises KeyboardInterrupt, which is
\* not an Exception: no `except Exception` of _Run catches it, so it leaves
\* every frame and Run, nothing is stored and no Close is called on the way.
Interrupt ==
  /\ stack # <<>>
  /\ Top.pc \in {"resume", "wait", "close"}
  /\ \E s \in (IF Top.task \in Units /\ Top.pc = "resume" /\ Top.sig = "none"
                 THEN UnitInterrupted(unit[Top.task])
                 ELSE {UnitOf(Top.task)}) :
       unit' = SetUnit(Top.task, s)
  /\ starts' = IF Top.pc = "resume" /\ Top.sig = "none"
                 THEN [starts EXCEPT ![Top.task] = @ + 1]
                 ELSE starts
  /\ closes' = IF Top.pc = "close"
                 THEN [closes EXCEPT ![Top.task] = @ + CloseCalls(Top)]
                 ELSE closes
  /\ stack' = <<>>
  /\ running' = FALSE
  /\ ret' = Raised(Exc("KeyboardInterrupt", None, <<"interrupt", 0, runs>>))
  /\ UNCHANGED <<cache, root, runs, work, raised, last, made, exec>>

Next ==
  \/ \E t \in Tasks : Run(t)
  \/ Submit
  \/ Resume
  \/ Wait
  \/ Close
  \/ Interrupt

Spec == Init /\ [][Next]_vars

\* Run under the assumptions that every call made on a task returns or raises
\* and that every started process exits: the step the loop of the top frame
\* is at is eventually taken.  The bodies ask for MaxLiveWork subtasks and
\* blocks at most, Run calls included.
MaxLiveWork == 2

LiveResume == Resume /\ work' <= MaxLiveWork

LiveNext == Next /\ work' <= MaxLiveWork

LiveSpec ==
  /\ Init
  /\ [][LiveNext]_vars
  /\ WF_vars(Submit)
  /\ WF_vars(LiveResume)
  /\ WF_vars(Wait)
  /\ WF_vars(Close)

\* ----------------------------------- ExternalProcessTask driven by any caller
\* The methods of ExternalProcessTask called in any order on units constructed
\* with any flags, while their processes exit and their timers fire.
MaxCalls == 3        \* Continue calls made on the units, all together

sched == <<cache, running, stack, ret, root, runs, starts, closes, raised>>

UnitInit ==
  /\ cache = [s \in Slots |-> Absent]
  /\ running = FALSE
  /\ stack = <<>>
  /\ ret = NoRet
  /\ root = 0
  /\ runs = 0
  /\ work = 0
  /\ starts = [t \in Tasks |-> 0]
  /\ closes = [t \in Tasks |-> 0]
  /\ raised = {}
  /\ unit \in [Units -> {NewUnit(x, tmo) : x \in BOOLEAN, tmo \in BOOLEAN}]
  /\ last = NoLast
  /\ made = NoneMade
  /\ exec = NoExec

Did(op, u, sig) == [op |-> op, task |-> u, sig |-> sig, from |-> unit[u]]

\* u.Continue()
CallContinue(u) ==
  /\ work < MaxCalls
  /\ work' = work + 1
  /\ \E a \in UnitContinue(u, unit[u]) :
       /\ unit' = [unit EXCEPT ![u] = a.s]
       /\ last' = Did("Continue", u, a.r.sig)
  /\ UNCHANGED <<sched, made, exec>>

\* u.Poll(), which asserts that self.proc is not None
CallPoll(u) ==
  /\ unit[u].proc # "none"
  /\ \E p \in Poll(unit[u]) :
       /\ unit' = [unit EXCEPT ![u] = p.s]
       /\ last' = Did("Poll", u, IF p.ready THEN "ready" ELSE "notready")
  /\ UNCHANGED <<sched, work, made, exec>>

\* u.Wait(), which asserts that self.proc is not None
CallWait(u) ==
  /\ unit[u].proc # "none"
  /\ \E s \in UnitWait(unit[u]) :
       /\ unit' = [unit EXCEPT ![u] = s]
       /\ last' = Did("Wait", u, "none")
  /\ UNCHANGED <<sched, work, made, exec>>

\* u.Close()
CallClose(u) ==
  /\ unit' = [unit EXCEPT ![u] = UnitClose(unit[u])]
  /\ last' = Did("Close", u, "none")
  /\ UNCHANGED <<sched, work, made, exec>>

\* The process of u exits.
ProcessExits(u) ==
  /\ unit[u].proc = "running"
  /\ unit' = [unit EXCEPT ![u].proc = "zombie"]
  /\ last' = Did("exit", u, "none")
  /\ UNCHANGED <<sched, work, made, exec>>

\* The Timer of u runs TimeoutKiller.
TimerFires(u) ==
  /\ unit[u].timer = "live"
  /\ unit' = [unit EXCEPT ![u].timer = "fired"]
  /\ last' = Did("fire", u, "none")
  /\ UNCHANGED <<sched, work, made, exec>>

UnitNext ==
  \/ \E u \in Units : CallContinue(u)
  \/ \E u \in Units : CallPoll(u)
  \/ \E u \in Units : CallWait(u)
  \/ \E u \in Units : CallClose(u)
  \/ \E u \in Units : ProcessExits(u)
  \/ \E u \in Units : TimerFires(u)

UnitSpec == UnitInit /\ [][UnitNext]_vars

\* ------------------------------------------------- CodeBase._ExecInternal
\* rime/codes.py runs a process through run_subprocess and classifies its
\* returncode: 0..MaxCode when the process exited, -n when signal n killed it.
MaxCode == 32        \* largest exit status and largest signal number
ExitCodes == (0 - MaxCode)..MaxCode

\* signal.SIGXCPU
SIGXCPU == 24

\* RunResult.OK, NG, RE and TLE
OK == "OK"
NG == "Exited Abnormally"
RE == "Runtime Error"
TLE == "Time Limit Exceeded"

\* Lines 181-188 of codes.py as a bug would have them: the test for a signal
\* comes before the test for SIGXCPU.
ClassifySignalFirst(c) ==
  IF c = 0 THEN OK
  ELSE IF c < 0 THEN RE
  ELSE IF c = 0 - SIGXCPU THEN TLE
  ELSE NG

\* Lines 181-188 of codes.py: the status given to returncode c.
Classify(c) ==
  IF c = 0 THEN OK
  ELSE IF c = 0 - SIGXCPU THEN TLE
  ELSE IF c < 0 THEN RE
  ELSE NG

ExecInit ==
  /\ UnitInit
  /\ unit \in Constructed

\* _ExecInternal(..., timeout): run_subprocess returns the exited process,
\* whose returncode is classified.
ExecInternal ==
  /\ \E tmo \in BOOLEAN : \E s \in run_subprocess(tmo) : \E c \in ExitCodes :
       /\ s.proc = "exited"
       /\ exec' = [timeout |-> tmo, code |-> c, status |-> Classify(c)]
  /\ UNCHANGED <<sched, work, unit, last, made>>

ExecNext == ExecInternal

ExecSpec == ExecInit /\ [][ExecNext]_vars

\* ------------------------------------------- GeneratorTask.FromFunction
\* Functions wrapped by task_method are called with their parameters bound
\* positionally or by keyword; each call builds the cache key, hashes it and
\* creates the generator.
MaxMade == 2         \* GeneratorTasks constructed
MaxArg == 2          \* hashable values an argument is drawn from

\* The wrapped functions with their parameters: f(x, y) and g(x).
Params == [f |-> <<"x", "y">>, g |-> <<"x">>]
Funcs == DOMAIN Params

\* The values of an argument: hashable ones and a list, which is not.
ArgValues == {Atom(n) : n \in 1..MaxArg} \cup {List(<<>>)}

\* Whether hash(v) returns; it raises TypeError for a list.
Hashable(v) == v.k # "list"

\* The orders in which the elements of S can be written.
Perms(S) ==
  {o \in [1..Cardinality(S) -> S] : \A i, j \in 1..Cardinality(S) : o[i] = o[j] => i = j}

\* The calls fn(*args, **kwargs) that bind every parameter once: the first p
\* parameters positionally, the others by keyword in any order.  kwargs is
\* kwargs.items(), in the order the keywords were written.
Calls ==
  UNION {UNION {{[func |-> fn,
                  args |-> [i \in 1..p |-> vals[i]],
                  kwargs |-> [j \in 1..(Len(Params[fn]) - p) |->
                                <<Params[fn][o[j]], vals[o[j]]>>]] :
                   vals \in [1..Len(Params[fn]) -> ArgValues],
                   o \in Perms((p + 1)..Len(Params[fn]))} :
                 p \in 0..Len(Params[fn])} :
          fn \in Funcs}

\* GeneratorTask._MakeCacheKey
MakeCacheKey(func, args, kwargs) == <<"GeneratorTask", func, args, kwargs>>

\* Whether hash(key) raises TypeError: the hash of a tuple hashes its items.
HashRaises(key) ==
  \/ \E i \in 1..Len(key[3]) : ~Hashable(key[3][i])
  \/ \E j \in 1..Len(key[4]) : ~Hashable(key[4][j][2])

\* MakeTask as a bug would have it: func is called, and the generator created,
\* before the key is hashed.
MakeTaskGeneratorFirst(m, call) ==
  LET key == MakeCacheKey(call.func, call.args, call.kwargs) IN
  IF HashRaises(key)
    THEN [m EXCEPT !.gens = @ + 1, !.err = "ValueError", !.call = call]
    ELSE [tasks |-> Append(m.tasks, [it |-> m.gens + 1, key |-> key, call |-> call]),
          gens |-> m.gens + 1, err |-> "none", call |-> call]

\* MakeTask(*args, **kwargs) of FromFunction: the key is made and hashed;
\* ValueError is raised when it cannot be, otherwise func(*args, **kwargs)
\* creates the generator and GeneratorTask(it, key) is returned.
MakeTask(m, call) ==
  LET key == MakeCacheKey(call.func, call.args, call.kwargs) IN
  IF HashRaises(key)
    THEN [m EXCEPT !.err = "ValueError", !.call = call]
    ELSE [tasks |-> Append(m.tasks, [it |-> m.gens + 1, key |-> key, call |-> call]),
          gens |-> m.gens + 1, err |-> "none", call |-> call]

MakeInit ==
  /\ UnitInit
  /\ unit \in Constructed

\* A wrapped function is called.
CallTaskMethod ==
  /\ Len(made.tasks) < MaxMade
  /\ \E call \in Calls : made' = MakeTask(made, call)
  /\ UNCHANGED <<sched, work, unit, last, exec>>

MakeNext == CallTaskMethod

MakeSpec == MakeInit /\ [][MakeNext]_vars

\* ---------------------------------------------------------------- claims
Frames == {stack[i] : i \in 1..Len(stack)}
Keys == {CacheKey(t) : t \in Tasks} \ {NoKey}

RECURSIVE Sum(_, _)
Sum(f, S) == IF S = {} THEN 0 ELSE LET x == CHOOSE y \in S : TRUE IN f[x] + Sum(f, S \ {x})

\* Number of times a body was started, over the Task objects carrying key k.
StartsOfKey(k) == Sum(starts, {t \in Tasks : CacheKey(t) = k})

\* The stored results of the tasks of a list, in the order of the list.
StoredResults(ts) == [i \in 1..Len(ts) |-> cache[Slot(ts[i])].val]

\* A frame whose task has been resumed after it yielded a TaskBranch.
ResumedAfterBranch(f) == f.call.kind # "none" /\ f.on.sig = "Branch"

\* C1: within one SerialTaskGraph the body of the tasks carrying a cache key
\* is started at most once per key, whatever number of equal Task objects is
\* submitted, from whatever parents and lists, over all Run calls.
C1_BodyStartedAtMostOncePerKey == \A k \in Keys : StartsOfKey(k) <= 1

\* C1 witness: a parent was handed the results of a TaskBranch holding two
\* different Task objects with the same key, and one body was started.
C1_Witness ==
  \E f \in Frames :
    /\ ResumedAfterBranch(f)
    /\ f.on.value.ok
    /\ Len(f.on.tasks) = 2
    /\ f.on.tasks[1] # f.on.tasks[2]
    /\ CacheKey(f.on.tasks[1]) = CacheKey(f.on.tasks[2])
    /\ CacheKey(f.on.tasks[1]) # NoKey
    /\ StartsOfKey(CacheKey(f.on.tasks[1])) = 1

\* C2: when every child of a TaskBranch succeeded, the parent is resumed
\* through Continue with the list of the children's stored results in the
\* order of the list.
C2_BranchResultsInSubmissionOrder ==
  \A f \in Frames :
    (ResumedAfterBranch(f) /\ f.on.value.ok) =>
      /\ f.call.kind = "Continue"
      /\ f.call.arg = List(StoredResults(f.on.tasks))
      /\ \A i \in 1..Len(f.on.tasks) :
           cache[Slot(f.on.tasks[i])].st = "resolved" /\ cache[Slot(f.on.tasks[i])].ok

\* C2 witness: a parent resumed with the results of two children whose
\* results differ, the first child's own value first.
C2_Witness ==
  \E f \in Frames :
    /\ ResumedAfterBranch(f)
    /\ f.on.value.ok
    /\ Len(f.on.tasks) = 2
    /\ f.call.arg.l[1] # f.call.arg.l[2]
    /\ f.call.arg.l[1] = Atom(f.on.tasks[1])

\* C3: a task submitted while its cache entry is in progress is not entered
\* again: the submitting frame receives RuntimeError('Cyclic task dependency
\* found'), no slot is on the stack twice, and the depth of the recursion
\* never exceeds the number of cache entries.
C3_RevisitFailsWithCyclicError ==
  /\ \A f \in Frames :
       (/\ f.pc = "resume"
        /\ f.sig \in {"Branch", "Task"}
        /\ f.tasks # <<>>
        /\ cache[Slot(f.tasks[f.idx])].st = "inprogress")
       => (~f.value.ok /\ f.value.exc.type = "RuntimeError")
  /\ \A i, j \in 1..Len(stack) : Slot(stack[i].task) = Slot(stack[j].task) => i = j
  /\ Len(stack) <= Cardinality(Slots)

\* C3 witness: a started task yielded a TaskBranch naming a task equal to
\* itself and its frame holds the cyclic error.
C3_Witness ==
  \E f \in Frames :
    /\ f.pc = "resume"
    /\ f.sig = "Branch"
    /\ f.tasks # <<>>
    /\ Slot(f.tasks[f.idx]) = Slot(f.task)
    /\ ~f.value.ok
    /\ f.value.exc.type = "RuntimeError"
    /\ starts[f.task] = 1

\* C4: when the run of a child of a TaskBranch ends in Bailout(v), the parent
\* is resumed through Continue with v, not with a list and not through Throw.
C4_BailoutValueReplacesBranchResult ==
  \A f \in Frames :
    (ResumedAfterBranch(f) /\ ~f.on.value.ok /\ f.on.value.exc.type = "Bailout") =>
      /\ f.call.kind = "Continue"
      /\ f.call.arg = f.on.value.exc.val
      /\ f.call.exc = NoExc

\* C4 witness: the second child of a two-element list raised Bailout with a
\* value and the parent was resumed with that value.
C4_Witness ==
  \E f \in Frames :
    /\ ResumedAfterBranch(f)
    /\ Len(f.on.tasks) = 2
    /\ f.on.idx = 2
    /\ ~f.on.value.ok
    /\ f.on.value.exc.type = "Bailout"
    /\ f.on.value.exc.val = Atom(f.on.tasks[2])
    /\ f.call.arg = Atom(f.on.tasks[2])

\* C5: when no Run is active, every Task object whose body was started has
\* had Close called exactly once, interrupted runs included.
C5_StartedTasksClosedOnce ==
  ~running => \A t \in Tasks : starts[t] >= 1 => closes[t] = 1

\* A frame whose task has been resumed after a child of its TaskBranch raised
\* Bailout.
ResumedAfterBailout(f) ==
  ResumedAfterBranch(f) /\ ~f.on.value.ok /\ f.on.value.exc.type = "Bailout"

C7_AllChildrenTerminalBeforeResume ==
  \A f \in Frames :
    (f.pc = "resume" /\ f.sig = "Branch") =>
      \A j \in 1..Len(f.tasks) : cache[Slot(f.tasks[j])].st = "resolved"

\* C7 as amended: a parent that yielded a TaskBranch is resumed with the
\* result list only when every child has resolved successfully; it is resumed
\* with an error as soon as one submission raises, when the children before
\* that one have resolved successfully and that one has resolved with the
\* error, or is in progress and the error is the cyclic-dependency error.
C7_SubmittedChildrenTerminalBeforeResume ==
  \A f \in Frames :
    (f.pc = "resume" /\ f.sig = "Branch") =>
      IF f.value.ok
        THEN \A j \in 1..Len(f.tasks) :
               cache[Slot(f.tasks[j])].st = "resolved" /\ cache[Slot(f.tasks[j])].ok
        ELSE /\ f.idx \in 1..Len(f.tasks)
             /\ \A j \in 1..(f.idx - 1) :
                  cache[Slot(f.tasks[j])].st = "resolved" /\ cache[Slot(f.tasks[j])].ok
             /\ LET e == cache[Slot(f.tasks[f.idx])] IN
                  \/ e.st = "resolved" /\ ~e.ok /\ e.exc = f.value.exc
                  \/ e.st = "inprogress" /\ f.value.exc.type = "RuntimeError"

\* C7 witness: a parent is about to be resumed with the error of the first of
\* two children while the second has no cache entry.
C7_Witness ==
  \E f \in Frames :
    /\ f.pc = "resume"
    /\ f.sig = "Branch"
    /\ Len(f.tasks) = 2
    /\ f.idx = 1
    /\ ~f.value.ok
    /\ f.value.exc.type = "Error"
    /\ cache[Slot(f.tasks[2])].st = "absent"

\* C8: a Run that was not interrupted returns the value stored for the root
\* when the root resolved successfully and raises the stored exception
\* object itself when it resolved with an error; the running flag is false
\* once Run has ended, and true exactly while frames are active.
C8_RunDeliversRootOutcome ==
  /\ (ret.st # "none" /\ ret.exc.type # "KeyboardInterrupt" /\ cache[Slot(root)].st = "resolved") =>
       IF cache[Slot(root)].ok
         THEN ret = Returned(cache[Slot(root)].val)
         ELSE ret = Raised(cache[Slot(root)].exc)
  /\ ret.st # "none" => ~running
  /\ running <=> stack # <<>>

\* C8 witness: a Run has ended by raising the exception its root task's body
\* raised.
C8_Witness ==
  /\ ~running
  /\ ret.st = "raised"
  /\ ret.exc.type = "Error"
  /\ ret.exc.id = <<"body", root, 0>>
  /\ starts[root] = 1

\* Number of times a body was started, over the Task objects of a cache entry.
StartsOfSlot(u) == Sum(starts, {t \in Tasks : Slot(t) = u})

\* C9: a submission answered from a resolved cache entry hands over the stored
\* outcome: every result collected for a TaskBranch is the stored value of its
\* child, every error handed to a parent other than the cyclic-dependency
\* error is the stored exception object of the child that was submitted, and
\* the body behind a resolved entry, failed or not, was started exactly once.
C9_ResolvedOutcomeReplayed ==
  /\ \A f \in Frames :
       /\ (f.sig = "Branch" /\ f.pc \in {"branch", "resume"}) =>
            \A j \in 1..Len(f.results) :
              f.results[j] = cache[Slot(f.tasks[j])].val /\ cache[Slot(f.tasks[j])].ok
       /\ (/\ f.pc = "resume"
           /\ f.sig \in {"Branch", "Task"}
           /\ ~f.value.ok
           /\ f.value.exc.type # "RuntimeError") =>
            LET e == cache[Slot(f.tasks[f.idx])] IN
              e.st = "resolved" /\ ~e.ok /\ e.exc = f.value.exc
  /\ \A u \in Slots : cache[u].st = "resolved" => StartsOfSlot(u) = 1

\* C9 witness: a parent that was thrown the error of a child submits a task
\* with the same key again and is handed the same exception object, the body
\* having been started once.
C9_Witness ==
  \E f \in Frames :
    /\ f.pc = "resume"
    /\ f.call.kind = "Throw"
    /\ f.sig = "Task"
    /\ ~f.value.ok
    /\ f.value.exc = f.call.exc
    /\ f.value.exc.type = "Error"
    /\ Slot(f.tasks[1]) # Slot(f.task)
    /\ StartsOfSlot(Slot(f.tasks[1])) = 1

\* C10: when a child of a TaskBranch, or a directly yielded child, failed with
\* an error other than Bailout, the parent is resumed through Throw with that
\* exception object; when the Throw raises, the error stored for the parent
\* is the one thrown in (it escaped) or one the parent's body raised itself.
C10_ChildErrorThrownIntoParent ==
  \A f \in Frames :
    /\ (/\ f.call.kind # "none"
        /\ f.on.sig \in {"Branch", "Task"}
        /\ ~f.on.value.ok
        /\ f.on.value.exc.type # "Bailout") =>
         (f.call.kind = "Throw" /\ f.call.exc = f.on.value.exc)
    /\ (f.call.kind = "Throw" /\ f.pc = "close" /\ f.sig = "Raise") =>
         LET e == cache[Slot(f.task)] IN
           /\ e.st = "resolved" /\ ~e.ok
           /\ e.exc = f.call.exc \/ e.exc.id = <<"body", f.task, 0>>
    /\ (f.call.kind = "Throw" /\ f.pc = "close" /\ f.sig # "Raise") =>
         cache[Slot(f.task)].st = "resolved" /\ cache[Slot(f.task)].ok

\* C10 witness: a parent was thrown the error of its child, handled it and
\* completed successfully with a value.
C10_Witness ==
  \E f \in Frames :
    /\ f.call.kind = "Throw"
    /\ f.call.exc.type = "Error"
    /\ f.on.sig = "Branch"
    /\ f.pc = "close"
    /\ f.sig = "Return"
    /\ cache[Slot(f.task)] = Resolved(Ok(Atom(f.task)))

\* C11: when the Close of a task raised an error, the cache entry of the task
\* holds that error, whatever the body's outcome was, and it is what every
\* awaiter receives: the frame that submitted the task holds it as the error
\* to throw, and a Run whose root it is raises it.
C11_CloseErrorReplacesOutcome ==
  \A t \in raised :
    /\ cache[Slot(t)] = Resolved(Fail(CloseError(t)))
    /\ \A f \in Frames :
         (/\ f.pc = "resume"
          /\ f.sig \in {"Branch", "Task"}
          /\ f.tasks # <<>>
          /\ Slot(f.tasks[f.idx]) = Slot(t))
         => f.value = Fail(CloseError(t))
    /\ (ret.st # "none" /\ ret.exc.type # "KeyboardInterrupt" /\ Slot(root) = Slot(t))
         => ret = Raised(CloseError(t))

\* C11 witness: the Close of a child of a TaskBranch raised and the parent
\* has been resumed through Throw with the error of that Close.
C11_Witness ==
  \E f \in Frames :
    /\ ResumedAfterBranch(f)
    /\ f.on.tasks # <<>>
    /\ f.on.tasks[f.on.idx] \in raised
    /\ f.call.kind = "Throw"
    /\ f.call.exc = CloseError(f.on.tasks[f.on.idx])
    /\ cache[Slot(f.on.tasks[f.on.idx])].exc = f.call.exc

\* C12 as claimed: the outcome of a task without a key is never stored in the
\* cache, and a parent handed the results of a TaskBranch naming the same
\* such object twice has had its body started twice.
C12_NoKeyOutcomeNeverCached ==
  /\ \A t \in Tasks : CacheKey(t) = NoKey => cache[Slot(t)].st # "resolved"
  /\ \A f \in Frames :
       (/\ ResumedAfterBranch(f)
        /\ f.on.value.ok
        /\ Len(f.on.tasks) = 2
        /\ f.on.tasks[1] = f.on.tasks[2]
        /\ CacheKey(f.on.tasks[1]) = NoKey)
       => starts[f.on.tasks[1]] = 2

\* Task.__eq__ and Task.__hash__ over every pair of Task objects.
EqualByKeyOrIdentity ==
  \A a, b \in Tasks :
    /\ Eq(a, b) <=>
         \/ CacheKey(a) # NoKey /\ CacheKey(b) # NoKey /\ CacheKey(a) = CacheKey(b)
         \/ CacheKey(a) = NoKey /\ CacheKey(b) = NoKey /\ a = b
    /\ (CacheKey(a) = NoKey) # (CacheKey(b) = NoKey) => ~Eq(a, b)
    /\ Eq(a, b) => Hash(a) = Hash(b)
    /\ Slot(a) = Slot(b) <=> Eq(a, b)

\* C13: two Task objects are equal exactly when both carry a key and the keys
\* are equal, or neither carries a key and they are the same object; an
\* object with a key never equals one without; equal objects have equal
\* hashes, and two objects share a cache entry exactly when they are equal.
C13_EqualByKeyOrIdentity ==
  /\ EqualByKeyOrIdentity
  /\ \A a \in Tasks : cache[Slot(a)].st = "absent" => starts[a] = 0

\* C13 witness: a parent was handed the results of a TaskBranch naming two
\* different objects without a key, and the body of each was started.
C13_Witness ==
  \E f \in Frames :
    /\ ResumedAfterBranch(f)
    /\ f.on.value.ok
    /\ Len(f.on.tasks) = 2
    /\ f.on.tasks[1] # f.on.tasks[2]
    /\ CacheKey(f.on.tasks[1]) = NoKey
    /\ CacheKey(f.on.tasks[2]) = NoKey
    /\ starts[f.on.tasks[1]] = 1
    /\ starts[f.on.tasks[2]] = 1

\* C14 as claimed: a cache entry that holds a resolved outcome is never
\* changed by a later step.
C14_ResolvedEntryNeverChanges ==
  [][\A u \in Slots : cache[u].st = "resolved" => cache'[u] = cache[u]]_vars

\* C14 as amended: the only step that changes a resolved cache entry is the
\* Close of the task whose body produced it, when that Close raises: the
\* entry becomes the error of the Close; once _Run has left the task, the
\* entry never changes.
C14_ResolvedEntryChangedOnlyByCloseError ==
  [][\A u \in Slots :
       (cache[u].st = "resolved" /\ cache'[u] # cache[u]) =>
         /\ stack # <<>>
         /\ Top.pc = "close"
         /\ Slot(Top.task) = u
         /\ Top.task \in raised' \ raised
         /\ closes'[Top.task] = closes[Top.task] + 1
         /\ cache'[u] = Resolved(Fail(CloseError(Top.task)))]_vars

\* C14 witness: a second Run was answered from the entry a raising Close had
\* replaced during the first.
C14_Witness ==
  /\ runs = 2
  /\ ~running
  /\ root \in raised
  /\ starts[root] = 1
  /\ ret = Raised(CloseError(root))

\* C15 as claimed: when no Run is active the cache is empty, so that a Run
\* starts from an empty cache.
C15_CacheDiscardedAfterRun ==
  ~running => \A u \in Slots : cache[u].st = "absent"

\* The states a unit can be in.
UnitStates ==
  [exclusive : BOOLEAN, timeout : BOOLEAN, proc : {"none", "running", "zombie", "exited"},
   timer : {"none", "live", "fired"}, spawned : 0..1]

NonExclusive(t) == t \in Units /\ ~unit[t].exclusive
Exclusive(t) == t \in Units /\ unit[t].exclusive

\* The non-exclusive units among the tasks of a list.
NonExclusiveOf(ts) == {ts[j] : j \in 1..Len(ts)} \cap {t \in Tasks : NonExclusive(t)}

\* C16 as claimed: while the scheduler performs the blocking Wait of a
\* non-exclusive unit that is one of several non-exclusive units of a
\* TaskBranch, every such unit of the list has had its process started.
C16_BlockedUnitsOverlap ==
  \A i \in 2..Len(stack) :
    (/\ stack[i].pc = "wait"
     /\ NonExclusive(stack[i].task)
     /\ stack[i - 1].sig = "Branch"
     /\ Cardinality(NonExclusiveOf(stack[i - 1].tasks)) >= 2)
    => \A t \in NonExclusiveOf(stack[i - 1].tasks) : unit[t].spawned >= 1

\* What Continue answers on a non-exclusive unit, in every state of the unit.
NonExclusiveContinueAnswers ==
  \A u \in Units : \A s \in UnitStates :
    ~s.exclusive => \A a \in UnitContinue(u, s) :
      IF s.proc = "none"
        THEN \/ a.r.sig = "Block" /\ a.s.proc = "running" /\ a.s.spawned = s.spawned + 1
             \/ a.r.sig = "Raise" /\ a.s = s
        ELSE /\ a.s.spawned = s.spawned
             /\ \/ a.r.sig = "Block" /\ a.s.proc = "running" /\ s.proc = "running"
                \/ a.r = UnitReturn(u) /\ a.s.proc = "none"

\* C17: the first Continue of a non-exclusive unit starts the process and
\* returns TaskBlock (or raises the error of Popen, no process started); a
\* later Continue starts nothing, returns TaskBlock while the process has not
\* exited and TaskReturn with the handle, the unit ended, once it has; under
\* the scheduler the later Continue follows Wait and returns TaskReturn, and
\* the process is started at most once, exactly once when the unit returned.
C17_NonExclusiveUnitProtocol ==
  /\ NonExclusiveContinueAnswers
  /\ \A u \in Units : NonExclusive(u) => unit[u].spawned <= 1
  /\ \A f \in Frames :
       NonExclusive(f.task) =>
         /\ (f.call.kind # "none" /\ f.on.sig = "none") =>
              \/ f.sig = "Block" /\ unit[f.task].spawned = 1 /\ unit[f.task].proc # "none"
              \/ f.sig = "Raise" /\ unit[f.task].spawned = 0 /\ unit[f.task].proc = "none"
         /\ f.pc = "wait" => unit[f.task].proc = "running"
         /\ (f.pc = "resume" /\ f.sig = "Block") => unit[f.task].proc = "exited"
         /\ f.on.sig = "Block" =>
              /\ f.call = [kind |-> "Continue", arg |-> None, exc |-> NoExc]
              /\ f.sig = "Return"
              /\ unit[f.task].spawned = 1
              /\ unit[f.task].proc = "none"
              /\ cache[Slot(f.task)] = Resolved(Ok(Atom(f.task)))

\* C17 witness: a non-exclusive unit was blocked, waited for and, continued
\* again, returned its process handle, one process having been started.
C17_Witness ==
  \E f \in Frames :
    /\ NonExclusive(f.task)
    /\ f.on.sig = "Block"
    /\ f.sig = "Return"
    /\ f.pc = "close"
    /\ unit[f.task].spawned = 1

\* What Continue answers on an exclusive unit that holds no process.
ExclusiveContinueAnswers ==
  \A u \in Units : \A s \in UnitStates :
    (s.exclusive /\ s.proc = "none") => \A a \in UnitContinue(u, s) :
      \/ a.r = UnitReturn(u) /\ a.s.proc = "none" /\ a.s.spawned = s.spawned + 1
      \/ a.r.sig = "Raise" /\ a.s = s

\* C18: one Continue of an exclusive unit starts the process, waits for its
\* exit and returns TaskReturn (or raises the error of Popen): it never
\* returns TaskBlock, the scheduler never waits on an exclusive unit, and no
\* frame is active while the process of an exclusive unit runs, which happens
\* only when the Continue was interrupted.
C18_ExclusiveUnitRunsToExit ==
  /\ ExclusiveContinueAnswers
  /\ \A f \in Frames :
       Exclusive(f.task) =>
         /\ f.pc \in {"resume", "close"}
         /\ f.sig \in {"none", "Return", "Raise"}
         /\ unit[f.task].proc = "none"
         /\ f.sig = "Return" => unit[f.task].spawned = 1 /\ f.on.sig = "none"
         /\ f.sig = "Raise" => unit[f.task].spawned = 0
  /\ \A u \in Units :
       (Exclusive(u) /\ unit[u].proc # "none") =>
         /\ unit[u].proc = "running"
         /\ starts[u] = 1 /\ closes[u] = 0
         /\ cache[Slot(u)].st = "inprogress"
         /\ \A f \in Frames : f.task # u

\* C18 witness: an exclusive unit submitted by a parent has returned from its
\* only Continue, its process started and ended.
C18_Witness ==
  \E f \in Frames :
    /\ Exclusive(f.task)
    /\ Len(stack) >= 2
    /\ f.pc = "close"
    /\ f.sig = "Return"
    /\ f.call.kind = "Continue"
    /\ unit[f.task].spawned = 1

\* C19: once Close of a unit has returned the unit holds no process and no
\* timer, in whatever state Close was called.
C19_CloseLeavesNoProcessNoTimer ==
  last.op = "Close" =>
    unit[last.task].proc = "none" /\ unit[last.task].timer = "none"

\* C19 witness: Close was called on a unit whose process was running and
\* whose timer was live.
C19_Witness ==
  /\ last.op = "Close"
  /\ last.from.proc = "running"
  /\ last.from.timer = "live"
  /\ unit[last.task].proc = "none"

\* C20: a unit has a timer exactly while it is given a timeout and holds a
\* process, the timer being armed by the start of the process; after a
\* Continue that returned TaskReturn and after Close the unit has no timer;
\* run_subprocess returns with no live timer.
C20_NoLiveTimerAfterReturn ==
  /\ \A u \in Units :
       unit[u].timer # "none" <=> (unit[u].timeout /\ unit[u].proc # "none")
  /\ (last.op = "Continue" /\ last.sig = "Block" /\ last.from.proc = "none"
        /\ unit[last.task].timeout) => unit[last.task].timer = "live"
  /\ (last.op = "Continue" /\ last.sig = "Return") => unit[last.task].timer = "none"
  /\ last.op = "Close" => unit[last.task].timer = "none"
  /\ \A tmo \in BOOLEAN : \A s \in run_subprocess(tmo) : s.timer # "live"

\* C20 witness: a unit with a timeout whose timer was still live returned
\* TaskReturn from Continue.
C20_Witness ==
  /\ last.op = "Continue"
  /\ last.sig = "Return"
  /\ last.from.timeout
  /\ last.from.timer = "live"
  /\ last.from.proc = "exited"
  /\ unit[last.task].timer = "none"

\* C21: the status _ExecInternal gives to a returncode is OK for 0, Time
\* Limit Exceeded for -SIGXCPU, Runtime Error for every other negative code
\* and Exited Abnormally for every positive code; the four statuses differ,
\* so each code has exactly one.
C21_ExitCodeClassification ==
  /\ Cardinality({OK, NG, RE, TLE}) = 4
  /\ exec.status # "none" =>
       /\ exec.code = 0 => exec.status = OK
       /\ exec.code = 0 - SIGXCPU => exec.status = TLE
       /\ (exec.code < 0 /\ exec.code # 0 - SIGXCPU) => exec.status = RE
       /\ exec.code > 0 => exec.status = NG

\* C21 witness: a process run with a timeout was killed by SIGXCPU and given
\* Time Limit Exceeded.
C21_Witness ==
  /\ exec.timeout
  /\ exec.code = 0 - SIGXCPU
  /\ exec.status = TLE

\* The value each parameter of the function is bound to by a call.
Bound(c) ==
  [i \in 1..Len(Params[c.func]) |->
     IF i <= Len(c.args)
       THEN c.args[i]
       ELSE LET j == CHOOSE n \in 1..Len(c.kwargs) : c.kwargs[n][1] = Params[c.func][i]
            IN c.kwargs[j][2]]

\* A call that passes a value hash() rejects.
PassesUnhashable(c) ==
  \/ \E i \in 1..Len(c.args) : ~Hashable(c.args[i])
  \/ \E j \in 1..Len(c.kwargs) : ~Hashable(c.kwargs[j][2])

\* C22: a call of a task_method-wrapped function that passes an unhashable
\* argument raises ValueError, and it does so before the generator is created:
\* there are as many generators as GeneratorTasks returned, no GeneratorTask
\* carries an unhashable key, and no scheduler has been given anything.
C22_UnhashableArgumentFailsAtConstruction ==
  /\ made.call.func # "none" => (made.err = "ValueError" <=> PassesUnhashable(made.call))
  /\ made.gens = Len(made.tasks)
  /\ \A i \in 1..Len(made.tasks) :
       ~HashRaises(made.tasks[i].key) /\ made.tasks[i].it = i
  /\ stack = <<>> /\ runs = 0 /\ \A s \in Slots : cache[s] = Absent

\* C22 witness: after one GeneratorTask was returned, a call passing a list by
\* keyword raised ValueError and created no generator.
C22_Witness ==
  /\ made.err = "ValueError"
  /\ \E j \in 1..Len(made.call.kwargs) : ~Hashable(made.call.kwargs[j][2])
  /\ Len(made.tasks) = 1
  /\ made.gens = 1

\* C23 as claimed: two GeneratorTasks have equal cache keys exactly when they
\* were built from the same function with the same values bound to its
\* parameters, however the arguments were passed.
C23_KeyEqualIffSameBoundArguments ==
  \A i, j \in 1..Len(made.tasks) :
    (made.tasks[i].key = made.tasks[j].key)
      <=> (/\ made.tasks[i].call.func = made.tasks[j].call.func
           /\ Bound(made.tasks[i].call) = Bound(made.tasks[j].call))

\* C24: a task whose body ends by raising StopIteration, on a Continue or on
\* a Throw, has left its loop with the outcome (success, None) stored.
C24_StopIterationReturnsNone ==
  \A f \in Frames :
    f.sig = "StopIteration" =>
      /\ f.pc = "close"
      /\ f.call.kind \in {"Continue", "Throw"}
      /\ cache[Slot(f.task)] = Resolved(Ok(None))

\* C24 witness: the error of a child was thrown into a task, whose body then
\* ended without a value; the stored outcome is (success, None).
C24_Witness ==
  \E f \in Frames :
    /\ f.sig = "StopIteration"
    /\ f.call.kind = "Throw"
    /\ f.call.exc.type = "Error"
    /\ cache[Slot(f.task)] = Resolved(Ok(None))

\* C25: Close is called at most once on every Task object, and never on one
\* whose body was not started.
C25_CloseAtMostOncePerObject ==
  \A t \in Tasks : closes[t] <= 1 /\ closes[t] <= starts[t]

\* C25 witness: a Task object was run and closed once; a second Run was
\* given another object with the same key, returned the stored outcome and
\* closed nothing.
C25_Witness ==
  /\ runs = 2
  /\ ~running
  /\ \E t, u \in Tasks :
       /\ t # u
       /\ Slot(t) = Slot(u)
       /\ root = u
       /\ closes[t] = 1
       /\ closes[u] = 0
       /\ ret.st = "returned"

\* C26 as claimed: a cache entry is in progress exactly when a task of that
\* entry is on the stack of _Run frames with its loop not yet ended, and no
\* entry is in progress when no Run is active.
C26_InProgressIffOnChain ==
  /\ \A s \in Slots :
       cache[s].st = "inprogress" <=> \E f \in Frames : Slot(f.task) = s /\ f.pc # "close"
  /\ ~running => \A s \in Slots : cache[s].st # "inprogress"

\* The children of a TaskBranch or Task are run in the order of the list: the
\* frames below the top one each wait for the child at their position; the
\* children before that position have a successful outcome; the children this
\* frame's _Run calls have run are at or before the position and, but for the
\* one running now, were started once and closed once.
ChildrenRunInOrder ==
  /\ \A i \in 1..(Len(stack) - 1) :
       stack[i].pc = "branch" /\ stack[i + 1].task = stack[i].tasks[stack[i].idx]
  /\ \A i \in 1..Len(stack) :
       LET f == stack[i] IN
       (f.sig \in {"Branch", "Task"} /\ f.tasks # <<>>) =>
         /\ \A j \in 1..(f.idx - 1) :
              cache[Slot(f.tasks[j])].st = "resolved" /\ cache[Slot(f.tasks[j])].ok
         /\ \A t \in f.entered :
              /\ \E j \in 1..f.idx : f.tasks[j] = t
              /\ \/ i < Len(stack) /\ stack[i + 1].task = t /\ closes[t] = 0
                 \/ starts[t] = 1 /\ closes[t] = 1

\* C27 as claimed: the children are run in order, one after the other, and
\* while a Run is active every Task object started and not closed is the task
\* of a frame of the stack.
C27_SerialOrderOneChain ==
  /\ ChildrenRunInOrder
  /\ stack # <<>> =>
       \A t \in Tasks : starts[t] > closes[t] => \E f \in Frames : f.task = t

\* C28: after a task returned TaskBlock the next step of the scheduler acts on
\* that task alone: first its Wait, with no other method called, then its
\* Continue with None; the frames below are left as they are.
C28_BlockThenWaitThenContinueNone ==
  [][(stack # <<>> /\ Top.sig = "Block" /\ stack' # <<>>) =>
       /\ Len(stack') = Len(stack)
       /\ \A i \in 1..(Len(stack) - 1) : stack'[i] = stack[i]
       /\ Top.pc \in {"wait", "resume"}
       /\ Top.value = Ok(None)
       /\ Top.pc = "wait" =>
            /\ stack'[Len(stack)] = [Top EXCEPT !.pc = "resume"]
            /\ UNCHANGED <<cache, starts, closes>>
       /\ Top.pc = "resume" =>
            stack'[Len(stack)].call = [kind |-> "Continue", arg |-> None, exc |-> NoExc]
    ]_vars

\* C28 witness: a child task that is not a process unit returned TaskBlock
\* and was resumed through Continue(None), its parent waiting.
C28_Witness ==
  /\ Len(stack) >= 2
  /\ Top.task \notin Units
  /\ Top.on.sig = "Block"
  /\ Top.call = [kind |-> "Continue", arg |-> None, exc |-> NoExc]
  /\ stack[Len(stack) - 1].pc = "branch"

\* C29 as claimed: a task into which the cyclic-dependency RuntimeError was
\* thrown ends with that error as its outcome, which goes on to its caller.
C29_CyclicErrorAlwaysPropagates ==
  \A f \in Frames :
    (f.call.kind = "Throw" /\ f.call.exc.type = "RuntimeError") =>
      /\ f.pc = "close"
      /\ cache[Slot(f.task)] = Resolved(Fail(f.call.exc))

\* A frame whose task has been resumed after it yielded a bare Task.
ResumedAfterTask(f) == f.call.kind # "none" /\ f.on.sig = "Task"

C31_BareValueEndsTask ==
  [][(stack # <<>> /\ Top.sig = "Value") =>
       /\ Top.pc = "close"
       /\ cache[Slot(Top.task)] = Resolved(Ok(Atom(Top.task)))
       /\ cache[Slot(Top.task)] = Stored(UnitReturn(Top.task))
       /\ Len(stack') < Len(stack)
       /\ \A i \in 1..Len(stack') : stack'[i].task = stack[i].task /\ stack'[i].call = stack[i].call
       /\ closes' = [closes EXCEPT ![Top.task] = @ + 1]
       /\ starts' = starts
    ]_vars

\* C31 witness: a body yielded a TaskBranch, was resumed with the results and
\* then yielded a plain value; the task has ended with that value.
C31_Witness ==
  /\ stack # <<>>
  /\ Top.sig = "Value"
  /\ Top.on.sig = "Branch"
  /\ Top.on.tasks # <<>>
  /\ Top.call.kind = "Continue"
  /\ cache[Slot(Top.task)] = Resolved(Ok(Atom(Top.task)))

\* C32: the Close of a GeneratorTask whose body yields again when closed
\* raises nothing; once that task was closed its cache entry holds the outcome
\* of its body, not an error of Close, and a Run of that task that came to its
\* end delivered that outcome.
C32_RefusedTeardownKeepsOutcome ==
  \A t \in Refusing :
    /\ t \notin raised
    /\ closes[t] = 1 =>
         LET e == cache[Slot(t)] IN
         /\ e.st = "resolved"
         /\ e # Resolved(Fail(CloseError(t)))
         /\ (~running /\ root = t /\ ret.exc.type # "KeyboardInterrupt") =>
              ret = IF e.ok THEN Returned(e.val) ELSE Raised(e.exc)

\* C32 witness: the body of such a task had yielded its value, so that it was
\* suspended when closed; Close returned and Run returned the value.
C32_Witness ==
  \E t \in Refusing :
    /\ ~running
    /\ root = t
    /\ starts[t] = 1
    /\ closes[t] = 1
    /\ cache[Slot(t)] = Resolved(Ok(Atom(t)))
    /\ ret = Returned(Atom(t))

\* A frame whose loop ended because the body of its task raised Bailout.
BodyRaisedBailout(f) ==
  /\ f.pc = "close"
  /\ f.sig = "Raise"
  /\ cache[Slot(f.task)].st = "resolved"
  /\ cache[Slot(f.task)].exc.type = "Bailout"

\* C33 as claimed: when the body of a task with a parent raised Bailout, the
\* task stays stored as failed with that Bailout and the parent receives it,
\* to be resumed through Continue with the carried value.
C33_BailoutAlwaysReachesParent ==
  [][(Len(stack) >= 2 /\ BodyRaisedBailout(Top) /\ stack' # <<>>) =>
       /\ cache'[Slot(Top.task)] = cache[Slot(Top.task)]
       /\ stack'[Len(stack')].value = Fail(cache[Slot(Top.task)].exc)
    ]_vars

\* C33 as amended: when the body of a task with a parent raised Bailout and
\* the Close of the task raises nothing, the task stays stored as failed with
\* that Bailout and the parent receives it; when Close raises, the error of
\* Close is stored and received instead.  A frame holding a Bailout is resumed
\* through Continue with the carried value; no Bailout is ever thrown into a
\* task, and the Bailout stored for a task is one its own body raised.
C33_BailoutConsumedByParent ==
  [][/\ (Len(stack) >= 2 /\ BodyRaisedBailout(Top) /\ stack' # <<>>) =>
          IF Top.task \in raised'
            THEN /\ cache'[Slot(Top.task)] = Resolved(Fail(CloseError(Top.task)))
                 /\ stack'[Len(stack')].value = Fail(CloseError(Top.task))
            ELSE /\ cache'[Slot(Top.task)] = cache[Slot(Top.task)]
                 /\ stack'[Len(stack')].value = Fail(cache[Slot(Top.task)].exc)
     /\ (/\ stack # <<>> /\ Top.pc = "resume"
         /\ ~Top.value.ok /\ Top.value.exc.type = "Bailout"
         /\ stack' # <<>>) =>
          stack'[Len(stack)].call =
            [kind |-> "Continue", arg |-> Top.value.exc.val, exc |-> NoExc]
     /\ \A i \in 1..Len(stack) :
          stack[i].call.kind = "Throw" => stack[i].call.exc.type # "Bailout"
     /\ \A s \in Slots :
          (cache[s].st = "resolved" /\ cache[s].exc.type = "Bailout") =>
            /\ cache[s].exc.id[1] = "body"
            /\ Slot(cache[s].exc.id[2]) = s
    ]_vars

\* C33 witness: a task was resumed through Continue with the value of the
\* Bailout its child raised and returned a value of its own; the child is
\* stored as failed with that Bailout, the parent as succeeded.
C33_Witness ==
  /\ stack # <<>>
  /\ Top.call.kind = "Continue"
  /\ Top.on.tasks # <<>>
  /\ ~Top.on.value.ok
  /\ Top.on.value.exc.type = "Bailout"
  /\ Top.call.arg = Atom(Top.on.tasks[Top.on.idx])
  /\ cache[Slot(Top.on.tasks[Top.on.idx])] = Resolved(Fail(Top.on.value.exc))
  /\ Top.sig = "Return"
  /\ cache[Slot(Top.task)] = Resolved(Ok(Atom(Top.task)))

\* C34: a Run whose root is stored as failed with a Bailout, and which was
\* not interrupted, ended by raising that Bailout, not by returning its value;
\* the Bailout raised by the body of the only frame is stored for the root.
C34_RootBailoutRaisedByRun ==
  /\ (~running /\ root # 0 /\ ret.exc.type # "KeyboardInterrupt") =>
       LET e == cache[Slot(root)] IN
       (e.st = "resolved" /\ ~e.ok /\ e.exc.type = "Bailout") => ret = Raised(e.exc)
  /\ (Len(stack) = 1 /\ BodyRaisedBailout(Top)) => Slot(Top.task) = Slot(root)

\* C34 witness: the body of the root raised Bailout with a value and Run
\* raised that Bailout.
C34_Witness ==
  /\ ~running
  /\ root # 0
  /\ starts[root] = 1
  /\ closes[root] = 1
  /\ ret.st = "raised"
  /\ ret.exc = Exc("Bailout", Atom(root), <<"body", root, 0>>)

\* C35 as claimed: the cyclic-dependency error is raised only for a task that
\* is on the stack of the current Run: a subtask found in progress has a frame
\* of its own below the one that submitted it, and Run never raises the error
\* for the task it was given.
C35_CyclicErrorOnlyForAncestor ==
  /\ \A f \in Frames :
       (/\ f.pc = "resume"
        /\ f.sig \in {"Branch", "Task"}
        /\ f.tasks # <<>>
        /\ ~f.value.ok
        /\ cache[Slot(f.tasks[f.idx])].st = "inprogress")
       => \E g \in Frames : Slot(g.task) = Slot(f.tasks[f.idx])
  /\ ~(/\ ~running
       /\ ret.st = "raised"
       /\ ret.exc = Exc("RuntimeError", None, <<"cyclic", 0, runs>>))

\* C36 as claimed: when the Timer of a unit runs TimeoutKiller, which sends
\* SIGXCPU to self.proc.pid, the process has not been collected by poll() or
\* wait(): it is running, or has exited and is still a zombie.
C36_NoSignalAfterReap ==
  last.op = "fire" => last.from.proc \in {"running", "zombie"}

\* C37: under the scheduler no assertion of ExternalProcessTask fails: a unit
\* whose Wait is about to be called, and a non-exclusive unit about to be
\* continued after TaskBlock (which calls Poll), holds a process; an exclusive
\* unit about to be continued holds none; no AssertionError is stored, held
\* by a frame or raised by Run; and self.running is set exactly while _Run
\* frames are active, so that it is reset whenever Run has ended.
C37_UnitAssertionsHold ==
  /\ \A f \in Frames :
       /\ f.task \in Units =>
            /\ f.pc = "wait" => unit[f.task].proc # "none"
            /\ (f.pc = "resume" /\ f.sig = "Block") => unit[f.task].proc # "none"
            /\ (f.pc = "resume" /\ unit[f.task].exclusive) => unit[f.task].proc = "none"
       /\ f.value.exc.type # "AssertionError"
  /\ \A s \in Slots : cache[s].exc.type # "AssertionError"
  /\ ret.exc.type # "AssertionError"
  /\ running <=> stack # <<>>

\* C37 witness: a non-exclusive unit submitted by a parent returned TaskBlock,
\* was waited for and continued again, Poll finding its process exited.
C37_Witness ==
  /\ Len(stack) >= 2
  /\ NonExclusive(Top.task)
  /\ Top.pc = "close"
  /\ Top.sig = "Return"
  /\ Top.on.sig = "Block"
  /\ unit[Top.task].spawned = 1
  /\ unit[Top.task].proc = "none"

\* C38: every Run that was entered eventually ends, returning or raising.
C38_RunTerminates == running ~> ~running

\* C38 witness: a Run of a task that depends on itself has ended, raising the
\* cyclic-dependency error its body let through.
C38_Witness ==
  /\ ~running
  /\ root # 0
  /\ starts[root] = 1
  /\ closes[root] = 1
  /\ ret.st = "raised"
  /\ ret.exc = Exc("RuntimeError", None, <<"cyclic", root, 2>>)

====
